---------------------------- MODULE Spec2Model ----------------------------
(***************************************************************************)
(* Leave-request / work-log server (src/server/server.ts): the user store, *)
(* the requests and worklogs tables, the upload directory, the access      *)
(* guard (authRequired, ensureRole) and one action per HTTP route.         *)
(*                                                                         *)
(* Strings are modelled by the features the code's regular expressions and *)
(* parsers look at: a value is a record whose field k names its shape.     *)
(*   [k |-> "undefined"]                  key absent from the JSON body    *)
(*   [k |-> "word", w |-> s]              the string s                     *)
(*   [k |-> "date", y, m, d]              the string "yyyy-mm-dd" (digits) *)
(*   [k |-> "phone", len |-> n]           n characters of [0-9\-\s()+]     *)
(*   [k |-> "dataurl", mime, enc]         "data:image/<mime>;<enc>,..."    *)
(* The department and leave-type names of the source (Korean strings) are  *)
(* written in ASCII: dev, prodsupport, prod, facility; annual, half, sick, *)
(* family.                                                                 *)
(***************************************************************************)
EXTENDS Integers, Sequences, FiniteSets, TLC

VARIABLES
  users,      \* users table: id -> [username, role]
  requests,   \* requests table: requestId -> row
  worklogs,   \* worklogs table: id -> row
  files,      \* WORKLOG_DIR: stored file name -> id of the upload that wrote it
  inflight,   \* calls received and not yet answered: slot -> call
  clock,      \* Date.now()
  callers,    \* the Authorization headers the clients of this run send
  last        \* the call answered last, with its response

vars == <<users, requests, worklogs, files, inflight, clock, callers, last>>

----------------------------------------------------------------------------
(* Bounds of the model *)

MaxRequests == 2
MaxGuardRows == 1
MaxWorklogs == 2
MaxClock == 1
MaxInflight == 2

----------------------------------------------------------------------------
(* Values *)

Undef == [k |-> "undefined"]
Word(s) == [k |-> "word", w |-> s]
DateStr(y, m, d) == [k |-> "date", y |-> y, m |-> m, d |-> d]
Phone(n) == [k |-> "phone", len |-> n]
DataUrl(mime, enc) == [k |-> "dataurl", mime |-> mime, enc |-> enc]

Null == [k |-> "null"]

IsString(v) == v.k \in {"word", "date", "phone", "dataurl"}

\* length of the string a value stands for
StrLen(v) ==
  CASE v.k = "word" -> IF v.w = "" THEN 0 ELSE 1
    [] v.k = "date" -> 10
    [] v.k = "phone" -> v.len
    [] v.k = "dataurl" -> 20
    [] OTHER -> 0

\* /^\d{4}-\d{2}-\d{2}$/
MatchesDateRegex(v) == v.k = "date"

\* phoneRegex  /^[0-9\-\s()+]{7,20}$/ ; a "date" string is ten digits and dashes
phoneRegex(v) ==
  \/ v.k = "phone" /\ v.len >= 7 /\ v.len <= 20
  \/ v.k = "date"

\* /^data:image\/(png|jpeg);base64,/
MatchesSignatureRegex(v) ==
  v.k = "dataurl" /\ v.mime \in {"png", "jpeg"} /\ v.enc = "base64"

LeaveTypeEnum == {"annual", "half", "sick", "family"}
StatusEnum == {"Pending", "Approved", "Rejected", "Canceled"}
RoleEnum == {"employee", "manager", "hr", "admin"}
DeptEnum == {"dev", "prodsupport", "prod", "facility"}
\* the statuses of a leave request taken for those of a work log
WorklogStatusEnumWithCanceled == {"Pending", "Approved", "Rejected", "Canceled"}

WorklogStatusEnum == {"Pending", "Approved", "Rejected"}

InEnum(v, E) == v.k = "word" /\ v.w \in E

----------------------------------------------------------------------------
(* Dates: new Date("yyyy-mm-dd").getTime(), in days *)

IsLeap(y) == (y % 4 = 0 /\ y % 100 # 0) \/ y % 400 = 0

DaysInMonth(y, m) ==
  CASE m \in {1, 3, 5, 7, 8, 10, 12} -> 31
    [] m \in {4, 6, 9, 11} -> 30
    [] OTHER -> IF IsLeap(y) THEN 29 ELSE 28

\* days in the months of year y before month m
RECURSIVE DaysBeforeMonth(_, _)
DaysBeforeMonth(y, m) ==
  IF m <= 1 THEN 0 ELSE DaysBeforeMonth(y, m - 1) + DaysInMonth(y, m - 1)

\* days from 0000-01-01 to the first day of year y
DaysBeforeYear(y) ==
  365 * y + ((y + 3) \div 4) - ((y + 99) \div 100) + ((y + 399) \div 400)

NaN == -1

\* The date parser takes month 1..12 and day 1..31 and lets a day past the
\* end of the month run over into the next one; anything else is Invalid
\* Date, whose getTime() is NaN.
DateGetTime(v) ==
  IF v.k = "date" /\ v.m >= 1 /\ v.m <= 12 /\ v.d >= 1 /\ v.d <= 31
  THEN DaysBeforeYear(v.y) + DaysBeforeMonth(v.y, v.m) + (v.d - 1)
  ELSE NaN

\* a >= b on numbers, false when either side is NaN
GeNumber(a, b) == a # NaN /\ b # NaN /\ a >= b

----------------------------------------------------------------------------
(* Input validation schemas *)

BodyKeys ==
  {"dateRequested", "empId", "name", "dept", "position", "leaveType",
   "startDate", "endDate", "note", "handoverPerson", "contact", "status",
   "signatureDataUrl", "requesterId"}

\* Outcome of one field: "valid", "dirty" (a string that fails a check; parsing
\* goes on) or "aborted" (wrong type or not in the enum).
ParseStringRegex(v, ok) ==
  IF ~IsString(v) THEN "aborted" ELSE IF ok THEN "valid" ELSE "dirty"

ParseEnum(v, E) == IF InEnum(v, E) THEN "valid" ELSE "aborted"

\* z.string().optional().default('')
ParseNote(v) == IF v = Undef \/ IsString(v) THEN "valid" ELSE "aborted"

\* StatusEnum.default('Pending')
ParseStatusField(v) == IF v = Undef THEN "valid" ELSE ParseEnum(v, StatusEnum)

SchemaKeys == BodyKeys \ {"requesterId"}

FieldStatus(body, key) ==
  CASE key \in {"dateRequested", "startDate", "endDate"} ->
         ParseStringRegex(body[key], MatchesDateRegex(body[key]))
    [] key \in {"empId", "name", "position", "handoverPerson"} ->
         ParseStringRegex(body[key], StrLen(body[key]) >= 1)
    [] key = "dept" -> ParseEnum(body[key], DeptEnum)
    [] key = "leaveType" -> ParseEnum(body[key], LeaveTypeEnum)
    [] key = "note" -> ParseNote(body[key])
    [] key = "contact" -> ParseStringRegex(body[key], phoneRegex(body[key]))
    [] key = "status" -> ParseStatusField(body[key])
    [] key = "signatureDataUrl" ->
         ParseStringRegex(body[key], MatchesSignatureRegex(body[key]))

\* .refine(v => new Date(v.endDate).getTime() >= new Date(v.startDate).getTime())
EndNotBeforeStart(body) ==
  GeNumber(DateGetTime(body.endDate), DateGetTime(body.startDate))

\* the status the parsed data carries
ParsedStatus(body) == IF body.status = Undef THEN "Pending" ELSE body.status.w

\* createRequestSchema.safeParse(body): the refinement runs unless a field
\* aborted; unknown keys (requesterId) are stripped.
createRequestSchema(body) ==
  LET bad == {key \in SchemaKeys : FieldStatus(body, key) # "valid"}
      aborted == \E key \in SchemaKeys : FieldStatus(body, key) = "aborted"
      refineFails == ~aborted /\ ~EndNotBeforeStart(body)
      fieldErrors == bad \cup (IF refineFails THEN {"endDate"} ELSE {})
  IN  [success |-> fieldErrors = {}, fieldErrors |-> fieldErrors]

\* updateStatusSchema = z.object({ status: StatusEnum })
updateStatusSchema(body) == [success |-> InEnum(body.status, StatusEnum)]

\* approveWithSignatureSchema
approveWithSignatureSchema(body) ==
  [success |-> MatchesSignatureRegex(body.signatureDataUrl)]

----------------------------------------------------------------------------
(* Users and the access guard *)

NoUser == [id |-> "none", role |-> "none"]

\* seedUser('admin', ...), ('manager', ...), ('hr', ...), ('employee', ...)
SeededUsers ==
  [id \in {"U1", "U2", "U3", "U4"} |->
     CASE id = "U1" -> [username |-> "admin", role |-> "admin"]
       [] id = "U2" -> [username |-> "manager", role |-> "manager"]
       [] id = "U3" -> [username |-> "hr", role |-> "hr"]
       [] id = "U4" -> [username |-> "employee", role |-> "employee"]]

\* a subject id no row of the users table has
GhostId == "U0"

\* Authorization headers: none, a token jwt.verify rejects (bad signature or
\* expired), a token it accepts with subject sub
Tokens ==
  {[kind |-> "none", sub |-> "none"],
   [kind |-> "invalid", sub |-> "none"],
   [kind |-> "expired", sub |-> "U1"]}
  \cup {[kind |-> "valid", sub |-> u] : u \in {"U1", "U2", "U3", "U4", GhostId}}

\* the users table not consulted: an accepted token whose subject has no row
\* passes as an employee
authRequiredTokenOnly(tok) ==
  IF tok.kind = "none"
  THEN [code |-> 401, error |-> "Unauthorized", user |-> NoUser]
  ELSE IF tok.kind # "valid"
  THEN [code |-> 401, error |-> "Invalid/expired token", user |-> NoUser]
  ELSE [code |-> 0, error |-> "",
        user |-> [id |-> tok.sub,
                  role |-> IF tok.sub \in DOMAIN users THEN users[tok.sub].role
                           ELSE "employee"]]

\* the role read from the token, not from the users table
authRequiredTokenRole(tok) ==
  IF tok.kind = "none"
  THEN [code |-> 401, error |-> "Unauthorized", user |-> NoUser]
  ELSE IF tok.kind # "valid"
  THEN [code |-> 401, error |-> "Invalid/expired token", user |-> NoUser]
  ELSE IF tok.sub \notin DOMAIN users
  THEN [code |-> 401, error |-> "Invalid token", user |-> NoUser]
  ELSE [code |-> 0, error |-> "", user |-> [id |-> tok.sub, role |-> tok.role]]

authRequired(tok) ==
  IF tok.kind = "none"
  THEN [code |-> 401, error |-> "Unauthorized", user |-> NoUser]
  ELSE IF tok.kind # "valid"
  THEN [code |-> 401, error |-> "Invalid/expired token", user |-> NoUser]
  ELSE IF tok.sub \notin DOMAIN users
  THEN [code |-> 401, error |-> "Invalid token", user |-> NoUser]
  ELSE [code |-> 0, error |-> "", user |-> [id |-> tok.sub, role |-> users[tok.sub].role]]

\* roles ranked employee < hr < manager < admin, a higher role passing for
\* every lower one
RoleRank(role) ==
  CASE role = "employee" -> 1 [] role = "hr" -> 2 [] role = "manager" -> 3
    [] role = "admin" -> 4 [] OTHER -> 0

ensureRoleByRank(roles, user) ==
  IF user = NoUser THEN [code |-> 401, error |-> "Unauthorized"]
  ELSE IF \A r \in roles : RoleRank(user.role) < RoleRank(r)
  THEN [code |-> 403, error |-> "Forbidden"]
  ELSE [code |-> 0, error |-> ""]

ensureRole(roles, user) ==
  IF user = NoUser THEN [code |-> 401, error |-> "Unauthorized"]
  ELSE IF user.role \notin roles THEN [code |-> 403, error |-> "Forbidden"]
  ELSE [code |-> 0, error |-> ""]

\* authRequired, then ensureRole(roles)
Guard(tok, roles) ==
  LET a == authRequired(tok) IN
  IF a.code # 0 THEN a
  ELSE LET e == ensureRole(roles, a.user) IN
       [code |-> e.code, error |-> e.error, user |-> a.user]

\* the allowed roles each route declares
SubmitRoles == {"employee", "admin"}
UpdateStatusRoles == {"manager", "admin"}
ApproveRolesWithEmployee == {"manager", "admin", "employee"}
ApproveRoles == {"manager", "admin"}
ListRecentRoles == {"manager", "hr", "admin"}
WorklogListRoles == {"manager", "admin"}
WorklogUpdateStatusRoles == {"manager", "admin"}
\* routes with authRequired only
AnyRole == RoleEnum

----------------------------------------------------------------------------
(* The requests table and the responses *)

NoBody == [none |-> Undef]
NoToken == [kind |-> "none", sub |-> "none"]

\* res.status(code).json(...): the call, and what was sent back
Response(op, tok, id, body, code, error, data, fieldErrors, dataUrl) ==
  [op |-> op, tok |-> tok, id |-> id, body |-> body, code |-> code,
   error |-> error, data |-> data, fieldErrors |-> fieldErrors,
   dataUrl |-> dataUrl]

Fail(op, tok, id, body, code, error) ==
  Response(op, tok, id, body, code, error, <<>>, {}, Null)

\* an id generator that hands out the same id again
FreshIdRepeated(table) == 1

\* cryptoRandomId(): an id no row has yet
FreshId(table) == Cardinality(DOMAIN table) + 1

\* ts of the approve route, from the clock
Timestamp(t) == [k |-> "ts", t |-> t]

\* an INSERT that also binds the caller's id to managerSignerId
SubmittedRowSignerBound(requestId, body, user) ==
  [requestId |-> requestId,
   dateRequested |-> body.dateRequested,
   empId |-> body.empId,
   name |-> body.name,
   dept |-> body.dept,
   position |-> body.position,
   leaveType |-> body.leaveType,
   startDate |-> body.startDate,
   endDate |-> body.endDate,
   note |-> IF body.note = Undef THEN Word("") ELSE body.note,
   status |-> ParsedStatus(body),
   handoverPerson |-> body.handoverPerson,
   contact |-> body.contact,
   signature |-> body.signatureDataUrl,
   requesterId |-> Word(user.id),
   managerSignature |-> Null,
   managerSignerId |-> Word(user.id),
   managerSignedAt |-> Null]

\* INSERT INTO requests (...) VALUES (...) of POST /api/requests
SubmittedRow(requestId, body, user) ==
  [requestId |-> requestId,
   dateRequested |-> body.dateRequested,
   empId |-> body.empId,
   name |-> body.name,
   dept |-> body.dept,
   position |-> body.position,
   leaveType |-> body.leaveType,
   startDate |-> body.startDate,
   endDate |-> body.endDate,
   note |-> IF body.note = Undef THEN Word("") ELSE body.note,
   status |-> ParsedStatus(body),
   handoverPerson |-> body.handoverPerson,
   contact |-> body.contact,
   signature |-> body.signatureDataUrl,
   requesterId |-> Word(user.id),
   managerSignature |-> Null,
   managerSignerId |-> Null,
   managerSignedAt |-> Null]

\* the row the seed script inserts: no signature, no requesterId
SeededRow(requestId, dateRequested, s, e, status) ==
  [requestId |-> requestId,
   dateRequested |-> dateRequested,
   empId |-> Word("E0001"),
   name |-> Word("Kim"),
   dept |-> Word("dev"),
   position |-> Word("staff"),
   leaveType |-> Word("annual"),
   startDate |-> s,
   endDate |-> e,
   note |-> Word("test data"),
   status |-> status,
   handoverPerson |-> Null,
   contact |-> Null,
   signature |-> Null,
   requesterId |-> Null,
   managerSignature |-> Null,
   managerSignerId |-> Null,
   managerSignedAt |-> Null]

\* a < b on "yyyy-mm-dd" strings (text comparison)
DateTextLess(a, b) ==
  \/ a.y < b.y
  \/ a.y = b.y /\ a.m < b.m
  \/ a.y = b.y /\ a.m = b.m /\ a.d < b.d

\* the rows in any order, as a SELECT without ORDER BY may return them
OrderedDescUnsorted(rows) ==
  {q \in [1..Cardinality(rows) -> rows] :
     \A i, j \in DOMAIN q : i # j => q[i] # q[j]}

\* ORDER BY dateRequested DESC: every order of the rows that is descending
\* (the order of rows with equal dateRequested is not fixed)
OrderedDesc(rows) ==
  {q \in [1..Cardinality(rows) -> rows] :
     /\ \A i, j \in DOMAIN q : i # j => q[i] # q[j]
     /\ \A i, j \in DOMAIN q :
          i < j => ~DateTextLess(q[i].dateRequested, q[j].dateRequested)}

Rows(table) == {table[i] : i \in DOMAIN table}

----------------------------------------------------------------------------
(* Leave-request routes: what each handler chain does to the requests table *)
(* and what it answers. Every chain runs to its response without yielding.  *)

\* the check left out
AlreadyApprovedNever(row) == FALSE

\* if (exists.status === 'Approved') return 409
AlreadyApproved(row) == row.status = "Approved"

\* the WHERE clause left out
IsMineAnyRow(row, user) == TRUE

\* requests.requesterId = ? of GET /api/requests/mine
IsMine(row, user) == row.requesterId = Word(user.id)

\* a requesterId of the body taken in place of the caller's
RequesterOfBody(body, user) ==
  IF body.requesterId = Undef THEN user
  ELSE [id |-> body.requesterId.w, role |-> user.role]

\* the requesterId POST /api/requests binds to the new row: req.user.id
RequesterOf(body, user) == user

\* POST /api/requests
SubmitResult(reqs, tok, body) ==
  LET g == Guard(tok, SubmitRoles)
      p == createRequestSchema(body)
      requestId == FreshId(reqs)
      row == SubmittedRow(requestId, body, RequesterOf(body, g.user))
  IN  IF g.code # 0
      THEN [requests |-> reqs,
            resp |-> Fail("submit", tok, 0, body, g.code, g.error)]
      ELSE IF ~p.success
      THEN [requests |-> reqs,
            resp |-> Response("submit", tok, 0, body, 400, "Validation error",
                              <<>>, p.fieldErrors, Null)]
      ELSE [requests |-> (requestId :> row) @@ reqs,
            resp |-> Response("submit", tok, requestId, body, 201, "",
                              <<row>>, {}, Null)]

\* a status route that treats Approved as final, as the approve route does
UpdateStatusResultTerminal(reqs, tok, id, body) ==
  LET g == Guard(tok, UpdateStatusRoles)
      p == updateStatusSchema(body)
  IN  IF g.code # 0
      THEN [requests |-> reqs,
            resp |-> Fail("updateStatus", tok, id, body, g.code, g.error)]
      ELSE IF ~p.success
      THEN [requests |-> reqs,
            resp |-> Fail("updateStatus", tok, id, body, 400, "Validation error")]
      ELSE IF id \notin DOMAIN reqs
      THEN [requests |-> reqs,
            resp |-> Fail("updateStatus", tok, id, body, 404, "Not found")]
      ELSE IF reqs[id].status = "Approved"
      THEN [requests |-> reqs,
            resp |-> Fail("updateStatus", tok, id, body, 409, "Already approved")]
      ELSE LET row == [reqs[id] EXCEPT !.status = body.status.w]
           IN  [requests |-> [reqs EXCEPT ![id] = row],
                resp |-> Response("updateStatus", tok, id, body, 200, "",
                                  <<row>>, {}, Null)]

\* PUT /api/requests/:id/status
UpdateStatusResult(reqs, tok, id, body) ==
  LET g == Guard(tok, UpdateStatusRoles)
      p == updateStatusSchema(body)
  IN  IF g.code # 0
      THEN [requests |-> reqs,
            resp |-> Fail("updateStatus", tok, id, body, g.code, g.error)]
      ELSE IF ~p.success
      THEN [requests |-> reqs,
            resp |-> Fail("updateStatus", tok, id, body, 400, "Validation error")]
      ELSE IF id \notin DOMAIN reqs
      THEN [requests |-> reqs,
            resp |-> Fail("updateStatus", tok, id, body, 404, "Not found")]
      ELSE LET row == [reqs[id] EXCEPT !.status = body.status.w]
           IN  [requests |-> [reqs EXCEPT ![id] = row],
                resp |-> Response("updateStatus", tok, id, body, 200, "",
                                  <<row>>, {}, Null)]

\* an UPDATE that leaves managerSignerId out of its SET list
ApprovedRowNoSigner(row, body, user, now) ==
  [row EXCEPT !.status = "Approved",
              !.managerSignature = body.signatureDataUrl,
              !.managerSignedAt = Timestamp(now)]

\* UPDATE requests SET status='Approved', managerSignature=?,
\* managerSignerId=?, managerSignedAt=? WHERE requestId=?
ApprovedRow(row, body, user, now) ==
  [row EXCEPT !.status = "Approved",
              !.managerSignature = body.signatureDataUrl,
              !.managerSignerId = Word(user.id),
              !.managerSignedAt = Timestamp(now)]

\* a handler that looks the record up before it validates the body
ApproveResultLookupFirst(reqs, tok, id, body, now) ==
  LET g == Guard(tok, ApproveRoles)
      p == approveWithSignatureSchema(body)
  IN  IF g.code # 0
      THEN [requests |-> reqs,
            resp |-> Fail("approve", tok, id, body, g.code, g.error)]
      ELSE IF id \notin DOMAIN reqs
      THEN [requests |-> reqs,
            resp |-> Fail("approve", tok, id, body, 404, "Not found")]
      ELSE IF AlreadyApproved(reqs[id])
      THEN [requests |-> reqs,
            resp |-> Fail("approve", tok, id, body, 409, "Already approved")]
      ELSE IF ~p.success
      THEN [requests |-> reqs,
            resp |-> Response("approve", tok, id, body, 400, "Validation error",
                              <<>>, {"signatureDataUrl"}, Null)]
      ELSE LET row == ApprovedRow(reqs[id], body, g.user, now)
           IN  [requests |-> [reqs EXCEPT ![id] = row],
                resp |-> Response("approve", tok, id, body, 200, "",
                                  <<row>>, {}, Null)]

\* POST /api/requests/:id/approve
ApproveResult(reqs, tok, id, body, now) ==
  LET g == Guard(tok, ApproveRoles)
      p == approveWithSignatureSchema(body)
  IN  IF g.code # 0
      THEN [requests |-> reqs,
            resp |-> Fail("approve", tok, id, body, g.code, g.error)]
      ELSE IF ~p.success
      THEN [requests |-> reqs,
            resp |-> Response("approve", tok, id, body, 400, "Validation error",
                              <<>>, {"signatureDataUrl"}, Null)]
      ELSE IF id \notin DOMAIN reqs
      THEN [requests |-> reqs,
            resp |-> Fail("approve", tok, id, body, 404, "Not found")]
      ELSE IF AlreadyApproved(reqs[id])
      THEN [requests |-> reqs,
            resp |-> Fail("approve", tok, id, body, 409, "Already approved")]
      ELSE LET row == ApprovedRow(reqs[id], body, g.user, now)
           IN  [requests |-> [reqs EXCEPT ![id] = row],
                resp |-> Response("approve", tok, id, body, 200, "",
                                  <<row>>, {}, Null)]

\* GET /api/requests
ListAllResults(reqs, tok) ==
  LET g == Guard(tok, AnyRole)
  IN  IF g.code # 0
      THEN {Fail("listAll", tok, 0, NoBody, g.code, g.error)}
      ELSE {Response("listAll", tok, 0, NoBody, 200, "", q, {}, Null) :
              q \in OrderedDesc(Rows(reqs))}

\* GET /api/requests/mine
ListMineResults(reqs, tok) ==
  LET g == Guard(tok, AnyRole)
  IN  IF g.code # 0
      THEN {Fail("listMine", tok, 0, NoBody, g.code, g.error)}
      ELSE {Response("listMine", tok, 0, NoBody, 200, "", q, {}, Null) :
              q \in OrderedDesc({r \in Rows(reqs) : IsMine(r, g.user)})}

\* a handler that returns the approver's signature once there is one
GetSignatureResultLatest(reqs, tok, id) ==
  LET g == Guard(tok, AnyRole)
  IN  IF g.code # 0
      THEN Fail("getSignature", tok, id, NoBody, g.code, g.error)
      ELSE IF id \notin DOMAIN reqs \/ reqs[id].signature = Null
      THEN Fail("getSignature", tok, id, NoBody, 404, "No signature")
      ELSE Response("getSignature", tok, id, NoBody, 200, "", <<>>, {},
                    IF reqs[id].managerSignature # Null
                    THEN reqs[id].managerSignature ELSE reqs[id].signature)

\* GET /api/requests/:id/signature
GetSignatureResult(reqs, tok, id) ==
  LET g == Guard(tok, AnyRole)
  IN  IF g.code # 0
      THEN Fail("getSignature", tok, id, NoBody, g.code, g.error)
      ELSE IF id \notin DOMAIN reqs \/ reqs[id].signature = Null
      THEN Fail("getSignature", tok, id, NoBody, 404, "No signature")
      ELSE Response("getSignature", tok, id, NoBody, 200, "", <<>>, {},
                    reqs[id].signature)

----------------------------------------------------------------------------
(* The clock and GET /api/requests/recent *)

\* getFullYear(), getMonth()+1, getDate() of a date whose day d may have run
\* past the end of month m (by less than a month), formatted with padStart
Normalize(y, m, d) ==
  IF d <= DaysInMonth(y, m) THEN DateStr(y, m, d)
  ELSE IF m = 12 THEN DateStr(y + 1, 1, d - DaysInMonth(y, m))
  ELSE DateStr(y, m + 1, d - DaysInMonth(y, m))

\* the server's clock starts on 2025-03-30 and ticks in days
BaseDate == DateStr(2025, 3, 30)

\* new Date(): the calendar date at clock value t
RECURSIVE Today(_)
Today(t) ==
  IF t = 0 THEN BaseDate
  ELSE LET p == Today(t - 1) IN Normalize(p.y, p.m, p.d + 1)

\* cut.setMonth(cut.getMonth() - 1), then cutStr
CutStr(today) ==
  IF today.m = 1 THEN Normalize(today.y - 1, 12, today.d)
  ELSE Normalize(today.y, today.m - 1, today.d)

\* WHERE dateRequested >= ?  (text comparison)
IsRecent(row, cutStr) == ~DateTextLess(row.dateRequested, cutStr)

ListRecentResults(reqs, tok, now) ==
  LET g == Guard(tok, ListRecentRoles)
  IN  IF g.code # 0
      THEN {Fail("listRecent", tok, 0, NoBody, g.code, g.error)}
      ELSE {Response("listRecent", tok, 0, NoBody, 200, "", q, {}, Null) :
              q \in OrderedDesc({r \in Rows(reqs) :
                                   IsRecent(r, CutStr(Today(now)))})}

----------------------------------------------------------------------------
(* Work-log routes *)

\* file.originalname.replace(/[^\w.\-...]/g, '_')
SafeName(originalname) ==
  IF originalname = "log 1.pdf" THEN "log_1.pdf" ELSE originalname

\* `${Date.now()}_${safe}`
StoredFileName(now, originalname) == [t |-> now, safe |-> SafeName(originalname)]

NoFile == [present |-> FALSE, originalname |-> "", bytes |-> ""]

NoFileName == [t |-> -1, safe |-> ""]

\* the multipart body: the file part and the signatureDataUrl field
UploadBody(file, sig) == [file |-> file, signatureDataUrl |-> sig]

WorklogRow(id, user, file, filename, sig, now) ==
  [id |-> id,
   uploaderId |-> Word(user.id),
   fileName |-> Word(file.originalname),
   filePath |-> filename,
   signature |-> sig,
   status |-> "Pending",
   createdAt |-> Timestamp(now)]

\* a handler that asks for the file part only
UploadResultFileOnly(logs, tok, user, filename, body, now) ==
  LET id == FreshId(logs)
      row == WorklogRow(id, user, body.file, filename, body.signatureDataUrl, now)
  IN  IF ~body.file.present
      THEN [worklogs |-> logs,
            resp |-> Fail("upload", tok, 0, body, 400, "file required")]
      ELSE [worklogs |-> (id :> row) @@ logs,
            resp |-> Response("upload", tok, id, body, 201, "", <<row>>, {}, Null)]

\* handler of POST /api/worklogs, once the middlewares before it have run
UploadResult(logs, tok, user, filename, body, now) ==
  LET id == FreshId(logs)
      row == WorklogRow(id, user, body.file, filename, body.signatureDataUrl, now)
  IN  IF ~body.file.present
      THEN [worklogs |-> logs,
            resp |-> Fail("upload", tok, 0, body, 400, "file required")]
      ELSE IF ~MatchesSignatureRegex(body.signatureDataUrl)
      THEN [worklogs |-> logs,
            resp |-> Fail("upload", tok, 0, body, 400, "signature required")]
      ELSE [worklogs |-> (id :> row) @@ logs,
            resp |-> Response("upload", tok, id, body, 201, "", <<row>>, {}, Null)]

\* ORDER BY w.createdAt DESC
OrderedByCreatedDesc(rows) ==
  {q \in [1..Cardinality(rows) -> rows] :
     /\ \A i, j \in DOMAIN q : i # j => q[i] # q[j]
     /\ \A i, j \in DOMAIN q : i < j => q[i].createdAt.t >= q[j].createdAt.t}

\* GET /api/worklogs
WorklogListResults(logs, tok) ==
  LET g == Guard(tok, WorklogListRoles)
  IN  IF g.code # 0
      THEN {Fail("worklogList", tok, 0, NoBody, g.code, g.error)}
      ELSE {Response("worklogList", tok, 0, NoBody, 200, "", q, {}, Null) :
              q \in OrderedByCreatedDesc(Rows(logs))}

\* PUT /api/worklogs/:id/status
WorklogUpdateStatusResult(logs, tok, id, body) ==
  LET g == Guard(tok, WorklogUpdateStatusRoles)
  IN  IF g.code # 0
      THEN [worklogs |-> logs,
            resp |-> Fail("worklogUpdateStatus", tok, id, body, g.code, g.error)]
      ELSE IF ~InEnum(body.status, WorklogStatusEnum)
      THEN [worklogs |-> logs,
            resp |-> Fail("worklogUpdateStatus", tok, id, body, 400, "Validation error")]
      ELSE IF id \notin DOMAIN logs
      THEN [worklogs |-> logs,
            resp |-> Fail("worklogUpdateStatus", tok, id, body, 404, "Not found")]
      ELSE LET row == [logs[id] EXCEPT !.status = body.status.w]
           IN  [worklogs |-> [logs EXCEPT ![id] = row],
                resp |-> Response("worklogUpdateStatus", tok, id, body, 200, "",
                                  <<row>>, {}, Null)]

----------------------------------------------------------------------------
(* Inputs of the calls *)

\* the example payload of the interface description, dated 2025-03-01
BasePayload ==
  [dateRequested |-> DateStr(2025, 3, 1),
   empId |-> Word("E0001"),
   name |-> Word("Kim"),
   dept |-> Word("dev"),
   position |-> Word("staff"),
   leaveType |-> Word("annual"),
   startDate |-> DateStr(2025, 1, 10),
   endDate |-> DateStr(2025, 1, 12),
   note |-> Undef,
   handoverPerson |-> Word("X"),
   contact |-> Phone(13),
   status |-> Undef,
   signatureDataUrl |-> DataUrl("png", "base64"),
   requesterId |-> Undef]

\* the base payload with one key replaced
Payloads ==
  {BasePayload,
   [BasePayload EXCEPT !.status = Word("Approved")],
   [BasePayload EXCEPT !.requesterId = Word("U2")],
   [BasePayload EXCEPT !.signatureDataUrl = Undef]}

StatusBody(v) == [status |-> v]
SignatureBody(v) == [signatureDataUrl |-> v]

StatusBodies == {StatusBody(Word("Pending")), StatusBody(Word("Rejected")),
                 StatusBody(Word("Done"))}

SignatureBodies == {SignatureBody(DataUrl("png", "base64")),
                    SignatureBody(DataUrl("gif", "base64"))}

ValidToken(u) == [kind |-> "valid", sub |-> u]

\* the callers of the lifecycle runs: admin, manager, employee
LifecycleCallers == {ValidToken("U1"), ValidToken("U2"), ValidToken("U4")}

Slots == 1..MaxInflight
Idle == [pc |-> 0]

----------------------------------------------------------------------------
(* State after start-up *)

NoCall == Fail("none", NoToken, 0, NoBody, 0, "")

Started ==
  /\ users = SeededUsers
  /\ requests = <<>>
  /\ worklogs = <<>>
  /\ files = <<>>
  /\ inflight = [s \in Slots |-> Idle]
  /\ clock = 0
  /\ last = NoCall

Init == Started /\ callers = LifecycleCallers

----------------------------------------------------------------------------
(* Leave-request actions: one per route, the whole middleware chain and     *)
(* handler in one step. bodies: the request bodies tried; cap: the number   *)
(* of rows the run stops inserting at.                                      *)

Submit(bodies, cap) ==
  \E tok \in callers, body \in bodies :
    \E r \in {SubmitResult(requests, tok, body)} :
      /\ Cardinality(DOMAIN r.requests) <= cap
      /\ requests' = r.requests
      /\ last' = r.resp
      /\ UNCHANGED <<users, worklogs, files, inflight, clock, callers>>

UpdateStatus(bodies, ids) ==
  \E tok \in callers, id \in ids, body \in bodies :
    \E r \in {UpdateStatusResult(requests, tok, id, body)} :
      /\ requests' = r.requests
      /\ last' = r.resp
      /\ UNCHANGED <<users, worklogs, files, inflight, clock, callers>>

ApproveWithSignature(bodies, ids) ==
  \E tok \in callers, id \in ids, body \in bodies :
    \E r \in {ApproveResult(requests, tok, id, body, clock)} :
      /\ requests' = r.requests
      /\ last' = r.resp
      /\ UNCHANGED <<users, worklogs, files, inflight, clock, callers>>

ListAll ==
  \E tok \in callers :
    /\ last' \in ListAllResults(requests, tok)
    /\ UNCHANGED <<users, requests, worklogs, files, inflight, clock, callers>>

ListMine ==
  \E tok \in callers :
    /\ last' \in ListMineResults(requests, tok)
    /\ UNCHANGED <<users, requests, worklogs, files, inflight, clock, callers>>

ListRecent ==
  \E tok \in callers :
    /\ last' \in ListRecentResults(requests, tok, clock)
    /\ UNCHANGED <<users, requests, worklogs, files, inflight, clock, callers>>

GetSignature(ids) ==
  \E tok \in callers, id \in ids :
    /\ last' = GetSignatureResult(requests, tok, id)
    /\ UNCHANGED <<users, requests, worklogs, files, inflight, clock, callers>>

\* the seed script inserts a row with a random status and sorted dates
SeedScript(statuses, cap) ==
  \E status \in statuses :
    /\ Cardinality(DOMAIN requests) < cap
    /\ requests' = (FreshId(requests) :>
                      SeededRow(FreshId(requests), DateStr(2025, 3, 1),
                                DateStr(2025, 1, 10), DateStr(2025, 1, 12),
                                status)) @@ requests
    /\ UNCHANGED <<users, worklogs, files, inflight, clock, callers, last>>

Tick ==
  /\ clock < MaxClock
  /\ clock' = clock + 1
  /\ UNCHANGED <<users, requests, worklogs, files, inflight, callers, last>>

----------------------------------------------------------------------------
(* Work-log actions. POST /api/worklogs is not one step: the upload         *)
(* middleware reads the multipart body and writes the file while other      *)
(* calls are answered, and the handler runs when it is done.                *)

\* a middleware order with the upload before the access check
UploadChainStoreFirst == <<"upload", "authRequired", "handler">>

\* a chain whose handler does not wait for the upload middleware
UploadChainHandlerFirst == <<"authRequired", "handler", "upload">>

\* app.post('/api/worklogs', authRequired, upload.single('file'), handler)
UploadChain == <<"authRequired", "upload", "handler">>

NewUpload(tok, body) ==
  [pc |-> 1, op |-> "upload", tok |-> tok, user |-> NoUser, body |-> body,
   filename |-> NoFileName]

\* the call c once the access check, if it is next in the chain, has run
Advance(c) ==
  IF UploadChain[c.pc] = "authRequired"
  THEN LET a == authRequired(c.tok) IN
       IF a.code # 0
       THEN [answered |-> TRUE, call |-> c,
             resp |-> Fail("upload", c.tok, 0, c.body, a.code, a.error)]
       ELSE [answered |-> FALSE, resp |-> last,
             call |-> [c EXCEPT !.pc = c.pc + 1, !.user = a.user]]
  ELSE [answered |-> FALSE, call |-> c, resp |-> last]

\* the call arrives in the lowest free slot
UploadBegin(bodies, slots) ==
  \E tok \in callers, body \in bodies, s \in slots :
    \E a \in {Advance(NewUpload(tok, body))} :
      /\ inflight[s] = Idle
      /\ \A t \in slots : t < s => inflight[t] # Idle
      /\ inflight' = IF a.answered THEN inflight
                     ELSE [inflight EXCEPT ![s] = a.call]
      /\ last' = a.resp
      /\ UNCHANGED <<users, requests, worklogs, files, clock, callers>>

\* the upload middleware names the file and writes it into WORKLOG_DIR (a
\* file of that name is replaced); without a file part it writes nothing
UploadStore(slots) ==
  \E s \in slots :
    /\ inflight[s].pc > 0
    /\ UploadChain[inflight[s].pc] = "upload"
    /\ LET c == inflight[s]
           fname == StoredFileName(clock, c.body.file.originalname)
           stored == IF c.body.file.present
                     THEN [c EXCEPT !.pc = c.pc + 1, !.filename = fname]
                     ELSE [c EXCEPT !.pc = c.pc + 1]
       IN  \E a \in {Advance(stored)} :
             /\ files' = IF c.body.file.present
                         THEN (fname :> c.body.file.bytes) @@ files
                         ELSE files
             /\ inflight' = [inflight EXCEPT ![s] = IF a.answered THEN Idle ELSE a.call]
             /\ last' = a.resp
    /\ UNCHANGED <<users, requests, worklogs, clock, callers>>

\* the handler of POST /api/worklogs
UploadFinish(slots, cap) ==
  \E s \in slots :
    /\ inflight[s].pc > 0
    /\ UploadChain[inflight[s].pc] = "handler"
    /\ LET c == inflight[s] IN
       \E r \in {UploadResult(worklogs, c.tok, c.user, c.filename, c.body, clock)} :
         /\ Cardinality(DOMAIN r.worklogs) <= cap
         /\ worklogs' = r.worklogs
         /\ last' = r.resp
    /\ inflight' = [inflight EXCEPT ![s] = Idle]
    /\ UNCHANGED <<users, requests, files, clock, callers>>

WorklogList ==
  \E tok \in callers :
    /\ last' \in WorklogListResults(worklogs, tok)
    /\ UNCHANGED <<users, requests, worklogs, files, inflight, clock, callers>>

WorklogUpdateStatus(bodies, ids) ==
  \E tok \in callers, id \in ids, body \in bodies :
    \E r \in {WorklogUpdateStatusResult(worklogs, tok, id, body)} :
      /\ worklogs' = r.worklogs
      /\ last' = r.resp
      /\ UNCHANGED <<users, requests, files, inflight, clock, callers>>

----------------------------------------------------------------------------
(* The access guard: every route, called by one caller per run, who sends   *)
(* no header, a rejected token, or a valid token of any subject             *)

GuardPayloads == {BasePayload, [BasePayload EXCEPT !.signatureDataUrl = Undef]}
GuardStatusBodies == {StatusBody(Word("Rejected")), StatusBody(Word("Done"))}
GuardUploadBodies ==
  {UploadBody([present |-> TRUE, originalname |-> "log.pdf", bytes |-> "A"], sig) :
     sig \in {DataUrl("png", "base64"), Undef}}
GuardIds == 1..MaxGuardRows
GuardSlots == {1}

InitGuard == Started /\ callers \in {{tok} : tok \in Tokens}

NextGuard ==
  \/ Submit(GuardPayloads, MaxGuardRows)
  \/ UpdateStatus(GuardStatusBodies, GuardIds)
  \/ ApproveWithSignature(SignatureBodies, GuardIds)
  \/ ListAll
  \/ ListMine
  \/ ListRecent
  \/ GetSignature(GuardIds)
  \/ UploadBegin(GuardUploadBodies, GuardSlots)
  \/ UploadStore(GuardSlots)
  \/ UploadFinish(GuardSlots, MaxGuardRows)
  \/ WorklogList
  \/ WorklogUpdateStatus(GuardStatusBodies, GuardIds)
  \/ SeedScript({"Pending"}, MaxGuardRows)

SpecGuard == InitGuard /\ [][NextGuard]_vars

----------------------------------------------------------------------------
(* Overlapping calls: several ApproveWithSignature and UpdateStatus calls   *)
(* have been received (their bodies read) before any of them is handled.   *)
(* A slot keeps an answered call, with its response, until the client has   *)
(* read it. Three fields of a slot are bookkeeping of the model: seen, the  *)
(* status the target had when the call was handled; conc, the slots that    *)
(* held a received, unhandled call at that moment; tainted, whether an      *)
(* UpdateStatus on the same request was handled after this call.            *)

\* a handler whose SELECT and UPDATE are separated by an await
SyncHandlersAwaited == FALSE

\* the better-sqlite3 calls of a handler are synchronous: the approve handler
\* runs from its SELECT to its UPDATE without yielding to another call
SyncHandlers == TRUE

NewCall(op, tok, id, body) ==
  [pc |-> 1, op |-> op, tok |-> tok, id |-> id, body |-> body, resp |-> NoCall,
   seen |-> "none", conc |-> {}, tainted |-> FALSE]

Received == 1
Answered == 2
Checked == 3

\* the admin approves with a PNG signature, the manager with a JPEG one,
\* and the admin sets a request back to Pending
ConcCalls ==
  {[op |-> "approve", tok |-> ValidToken("U1"),
    body |-> SignatureBody(DataUrl("png", "base64"))],
   [op |-> "approve", tok |-> ValidToken("U2"),
    body |-> SignatureBody(DataUrl("jpeg", "base64"))],
   [op |-> "updateStatus", tok |-> ValidToken("U1"),
    body |-> StatusBody(Word("Pending"))]}

Receive(calls, ids, slots) ==
  \E call \in calls, id \in ids, s \in slots :
    /\ call.tok \in callers
    /\ inflight[s] = Idle
    /\ \A t \in slots : t < s => inflight[t] # Idle
    /\ inflight' = [inflight EXCEPT ![s] = NewCall(call.op, call.tok, id, call.body)]
    /\ UNCHANGED <<users, requests, worklogs, files, clock, callers, last>>

StatusSeen(id) == IF id \in DOMAIN requests THEN requests[id].status ELSE "none"

\* the slots other than s that hold a received call not handled yet
Waiting(s, slots) == {t \in slots \ {s} : inflight[t].pc = Received}

\* an UpdateStatus on request id taints the answered calls on that request
Taint(slots, s, id) ==
  [t \in DOMAIN inflight |->
     IF t \in slots /\ t # s /\ inflight[t].pc = Answered /\ inflight[t].id = id
     THEN [inflight[t] EXCEPT !.tainted = TRUE]
     ELSE inflight[t]]

\* the handler chain of a received call runs
Dispatch(slots) ==
  \E s \in slots :
    /\ inflight[s].pc \in {Received, Checked}
    /\ LET c == inflight[s] IN
       \E r \in {IF c.op = "approve"
                 THEN ApproveResult(requests, c.tok, c.id, c.body, clock)
                 ELSE UpdateStatusResult(requests, c.tok, c.id, c.body)} :
         IF c.op = "updateStatus"
         THEN /\ requests' = r.requests
              /\ last' = r.resp
              /\ inflight' = [Taint(slots, s, c.id) EXCEPT ![s] =
                                [c EXCEPT !.pc = Answered, !.resp = r.resp,
                                          !.seen = StatusSeen(c.id),
                                          !.conc = Waiting(s, slots)]]
         ELSE IF c.pc = Received /\ (SyncHandlers \/ r.resp.code # 200)
         THEN /\ requests' = r.requests
              /\ last' = r.resp
              /\ inflight' = [inflight EXCEPT ![s] =
                                [c EXCEPT !.pc = Answered, !.resp = r.resp,
                                          !.seen = StatusSeen(c.id),
                                          !.conc = Waiting(s, slots)]]
         ELSE IF c.pc = Received
         THEN /\ inflight' = [inflight EXCEPT ![s] =
                                [c EXCEPT !.pc = Checked,
                                          !.seen = StatusSeen(c.id),
                                          !.conc = Waiting(s, slots)]]
              /\ UNCHANGED <<requests, last>>
         ELSE \E row \in {ApprovedRow(requests[c.id], c.body,
                                      authRequired(c.tok).user, clock)} :
                /\ requests' = [requests EXCEPT ![c.id] = row]
                /\ last' = Response("approve", c.tok, c.id, c.body, 200, "",
                                    <<row>>, {}, Null)
                /\ inflight' = [inflight EXCEPT ![s] =
                                  [c EXCEPT !.pc = Answered, !.resp = last']]
    /\ UNCHANGED <<users, worklogs, files, clock, callers>>

\* the client has read the response; the slot is free again
Deliver(slots) ==
  \E s \in slots :
    /\ inflight[s].pc = Answered
    /\ inflight' = [t \in DOMAIN inflight |->
                      IF t = s THEN Idle
                      ELSE IF t \in slots /\ inflight[t].pc # 0
                      THEN [inflight[t] EXCEPT !.conc = @ \ {s}]
                      ELSE inflight[t]]
    /\ UNCHANGED <<users, requests, worklogs, files, clock, callers, last>>

\* the database holds one Pending request of the seed script when the calls
\* start coming in
SeededPending ==
  1 :> SeededRow(1, DateStr(2025, 3, 1), DateStr(2025, 1, 10),
                 DateStr(2025, 1, 12), "Pending")

InitConc ==
  /\ users = SeededUsers
  /\ requests = SeededPending
  /\ worklogs = <<>>
  /\ files = <<>>
  /\ inflight = [s \in Slots |-> Idle]
  /\ clock = 0
  /\ last = NoCall
  /\ callers = {ValidToken("U1"), ValidToken("U2")}

NextConc ==
  \/ Receive(ConcCalls, DOMAIN requests, Slots)
  \/ Dispatch(Slots)
  \/ Deliver(Slots)

SpecConc == InitConc /\ [][NextConc]_vars

----------------------------------------------------------------------------
(* The leave-request lifecycle: calls of the admin, the manager and the     *)
(* employee, answered one after the other                                   *)

Next ==
  \/ Submit(Payloads, MaxRequests)
  \/ UpdateStatus(StatusBodies, 1..MaxRequests)
  \/ ApproveWithSignature(SignatureBodies, 1..MaxRequests)
  \/ ListAll
  \/ ListMine
  \/ SeedScript({"Pending", "Approved"}, MaxRequests)

Spec == Init /\ [][Next]_vars

\* submitting and listing only: the requests a caller makes and then reads
NextMine ==
  \/ Submit(Payloads, MaxRequests)
  \/ ListAll
  \/ ListMine
  \/ SeedScript({"Pending", "Approved"}, MaxRequests)

SpecMine == Init /\ [][NextMine]_vars

\* signatures of the approving calls: two the schema accepts, one it refuses
ApproveBodies ==
  SignatureBodies \cup {SignatureBody(DataUrl("jpeg", "base64"))}

\* approving and status setting only, by the admin and the manager, on the
\* rows of the seed script
Approvers == {ValidToken("U1"), ValidToken("U2")}

InitApprove == Started /\ callers = Approvers

NextApprove ==
  \/ UpdateStatus({StatusBody(Word("Pending")), StatusBody(Word("Rejected"))},
                  1..MaxRequests)
  \/ ApproveWithSignature(ApproveBodies, 1..MaxRequests)
  \/ SeedScript({"Pending", "Approved"}, MaxRequests)

SpecApprove == InitApprove /\ [][NextApprove]_vars

----------------------------------------------------------------------------
(* Properties of the lifecycle (under Spec) *)

\* the call c was made with a token of a stored user whose role is in roles
CallerHasRole(c, roles) ==
  /\ c.tok.kind = "valid"
  /\ c.tok.sub \in DOMAIN users
  /\ users[c.tok.sub].role \in roles

\* c is an ApproveWithSignature call on request r by a manager or admin with
\* a well-formed signature
IsGoodApprove(c, r) ==
  /\ c.op = "approve"
  /\ c.id = r
  /\ CallerHasRole(c, {"manager", "admin"})
  /\ MatchesSignatureRegex(c.body.signatureDataUrl)

\* C2: an ApproveWithSignature call by a manager/admin with a well-formed
\* signature on an existing request that is not Approved succeeds; the same
\* kind of call answered right after a successful one on the same request
\* gets 409 and leaves the table unchanged.
C2_ApproveTwice ==
  [][\A r \in 1..MaxRequests :
       (last' # last /\ IsGoodApprove(last', r)) =>
         /\ (r \in DOMAIN requests /\ requests[r].status # "Approved")
              => last'.code = 200 /\ requests'[r].status = "Approved"
         /\ (IsGoodApprove(last, r) /\ last.code = 200)
              => last'.code = 409 /\ requests' = requests]_vars

\* the second of two such calls has been answered 409; the row still carries
\* the first call's approval
C2_Witness ==
  /\ last.op = "approve"
  /\ last.code = 409
  /\ IsGoodApprove(last, last.id)
  /\ requests[last.id].status = "Approved"
  /\ requests[last.id].managerSignerId # Null

\* C3: every record created by a successful Submit has status Pending at
\* creation, whatever the payload contains.
C3_SubmitAlwaysPending ==
  (last.op = "submit" /\ last.code = 201) =>
    /\ last.data[1].status = "Pending"
    /\ requests[last.id].status = "Pending"

\* C4: the record a successful Submit creates has requesterId equal to the
\* id of the authenticated caller, whatever the body carries.
C4_RequesterIsCaller ==
  (last.op = "submit" /\ last.code = 201) =>
    /\ last.data[1].requesterId = Word(last.tok.sub)
    /\ requests[last.id].requesterId = Word(last.tok.sub)

\* a Submit whose body names another user as requesterId has succeeded
C4_Witness ==
  /\ last.op = "submit"
  /\ last.code = 201
  /\ last.body.requesterId # Undef
  /\ last.body.requesterId # Word(last.tok.sub)

\* C5: ListMine called by u never returns a record whose requesterId differs
\* from u's id.
C5_ListMineIsolation ==
  (last.op = "listMine" /\ last.code = 200) =>
    \A i \in DOMAIN last.data : last.data[i].requesterId = Word(last.tok.sub)

\* ListMine has answered with the caller's record while the table also holds
\* a record of another requester
C5_Witness ==
  /\ last.op = "listMine"
  /\ last.code = 200
  /\ Len(last.data) = 1
  /\ \E r \in DOMAIN requests : requests[r].requesterId # Word(last.tok.sub)

\* C6: after a successful Submit by caller u, a ListMine call by u answered
\* next includes the new record with status Pending.
C6_SubmitThenListMine ==
  [][(/\ last.op = "submit"
      /\ last.code = 201
      /\ last' # last
      /\ last'.op = "listMine"
      /\ last'.tok = last.tok
      /\ last'.code = 200)
     => \E i \in DOMAIN last'.data :
          /\ last'.data[i].requestId = last.id
          /\ last'.data[i].status = "Pending"]_vars

----------------------------------------------------------------------------
(* Properties of the access guard (under SpecGuard) *)

\* the call c carried no accepted identity: no header, a token jwt.verify
\* rejects, or a subject the users table does not hold
Unauthenticated(c) == c.tok.kind # "valid" \/ c.tok.sub \notin DOMAIN users

RoleOfCaller(c) == users[c.tok.sub].role

\* the role set each operation is said to allow
ClaimedRoles(op) ==
  CASE op = "submit" -> {"employee", "admin"}
    [] op \in {"updateStatus", "approve"} -> {"manager", "admin"}
    [] op = "listRecent" -> {"manager", "hr", "admin"}
    [] op \in {"worklogList", "worklogUpdateStatus"} -> {"manager", "admin"}
    [] op \in {"listAll", "listMine", "getSignature", "upload"} ->
         {"employee", "manager", "hr", "admin"}

StoresUnchanged ==
  /\ requests' = requests
  /\ worklogs' = worklogs
  /\ files' = files

C8_RoleSets ==
  (last.op # "none" /\ ~Unauthenticated(last)) =>
    /\ last.code # 401
    /\ (RoleOfCaller(last) \notin ClaimedRoles(last.op)) <=> (last.code = 403)
    /\ (last.code \in {200, 201}) => RoleOfCaller(last) \in ClaimedRoles(last.op)

\* the manager's Submit has been answered 403
C8_Witness ==
  /\ last.op = "submit"
  /\ CallerHasRole(last, {"manager"})
  /\ last.code = 403

C10_NoWriteOnDenial ==
  [][(last' # last /\ last'.code \in {401, 403}) => StoresUnchanged]_vars

\* an upload that carried a file has been answered 401 and the upload
\* directory is empty
C10_Witness ==
  /\ last.op = "upload"
  /\ last.code = 401
  /\ last.body.file.present
  /\ files = <<>>

----------------------------------------------------------------------------
(* Overlapping approvals (under SpecConc) *)

\* the call in slot s is an answered ApproveWithSignature call by a
\* manager/admin with a well-formed signature
GoodApproveAnswered(s) ==
  /\ inflight[s].pc = Answered
  /\ IsGoodApprove(inflight[s], inflight[s].id)

\* C1: of two ApproveWithSignature calls on the same request that were both
\* received before the first of them was handled, the request being there
\* and not Approved at that moment and no UpdateStatus on it handled since:
\* the first is answered 200, the second 409, and the row carries the
\* approverId and approverSignature of the first.
C1_OneApprovalWins ==
  \A a, b \in Slots :
    (/\ a # b
     /\ GoodApproveAnswered(a)
     /\ GoodApproveAnswered(b)
     /\ inflight[a].id = inflight[b].id
     /\ b \in inflight[a].conc
     /\ inflight[a].seen \notin {"none", "Approved"}
     /\ ~inflight[a].tainted)
    => /\ inflight[a].resp.code = 200
       /\ inflight[b].resp.code = 409
       /\ requests[inflight[a].id].status = "Approved"
       /\ requests[inflight[a].id].managerSignerId = Word(inflight[a].tok.sub)
       /\ requests[inflight[a].id].managerSignature = inflight[a].body.signatureDataUrl

\* two overlapping approvals of one Pending request by different callers
\* with different signatures have both been answered
C1_Witness ==
  \E a, b \in Slots :
    /\ a # b
    /\ GoodApproveAnswered(a)
    /\ GoodApproveAnswered(b)
    /\ inflight[a].id = inflight[b].id
    /\ b \in inflight[a].conc
    /\ inflight[a].seen = "Pending"
    /\ ~inflight[a].tainted
    /\ inflight[a].tok # inflight[b].tok
    /\ inflight[a].body # inflight[b].body
    /\ inflight[b].resp.code = 409

----------------------------------------------------------------------------
(* Requests that are not there (under SpecGuard) *)

\* C11: a leave-request UpdateStatus or ApproveWithSignature call by a
\* manager or admin on an id that matches no record is answered 404.
C11_MissingIdNotFound ==
  (/\ last.op \in {"updateStatus", "approve"}
   /\ CallerHasRole(last, {"manager", "admin"})
   /\ last.id \notin DOMAIN requests)
  => last.code = 404

----------------------------------------------------------------------------
(* Work-log uploads of the employee: with and without a file part, with a   *)
(* signature the handler accepts, with one it refuses and with none         *)

UploadFiles ==
  {NoFile, [present |-> TRUE, originalname |-> "log 1.pdf", bytes |-> "A"]}

UploadBodies ==
  {UploadBody(file, sig) :
     file \in UploadFiles,
     sig \in {DataUrl("png", "base64"), DataUrl("gif", "base64"), Undef}}

Uploaders == {ValidToken("U4")}

InitUpload == Started /\ callers = Uploaders

NextUpload ==
  \/ UploadBegin(UploadBodies, Slots)
  \/ UploadStore(Slots)
  \/ UploadFinish(Slots, MaxWorklogs)
  \/ Tick

SpecUpload == InitUpload /\ [][NextUpload]_vars

\* the file f of the upload directory is the file of a work-log row or of an
\* upload whose handler has not run yet
FileReferenced(f) ==
  \/ \E w \in DOMAIN worklogs : worklogs[w].filePath = f
  \/ \E s \in Slots : inflight[s].pc > 0 /\ inflight[s].filename = f

\* C12: once an upload has been answered 400 for a missing file or a missing
\* or malformed signature, the upload directory holds no file without a
\* work-log row: the refused call has stored nothing.
C12_RefusedUploadStoresNothing ==
  (last.op = "upload" /\ last.code = 400)
  => \A f \in DOMAIN files : FileReferenced(f)

----------------------------------------------------------------------------
(* The approval write (under SpecConc) *)

\* the step answers the ApproveWithSignature call of slot s with 200
ApproveSucceeds(s) ==
  /\ inflight[s].pc # Answered
  /\ inflight'[s].pc = Answered
  /\ inflight'[s].op = "approve"
  /\ inflight'[s].resp.code = 200

\* C13: the step that answers an ApproveWithSignature call with 200 leaves
\* the record Approved with the call's signature, the caller's id and a
\* timestamp; and a step changes an approver field of a record only if it is
\* such a step on that record, so no state between shows part of the write.
C13_ApproveAllAtOnce ==
  [][/\ \A s \in Slots :
          ApproveSucceeds(s) =>
            LET c == inflight'[s] IN
            /\ requests'[c.id].status = "Approved"
            /\ requests'[c.id].managerSignature = c.body.signatureDataUrl
            /\ requests'[c.id].managerSignerId = Word(c.tok.sub)
            /\ requests'[c.id].managerSignedAt = Timestamp(clock)
     /\ \A r \in DOMAIN requests :
          (\/ requests'[r].managerSignature # requests[r].managerSignature
           \/ requests'[r].managerSignerId # requests[r].managerSignerId
           \/ requests'[r].managerSignedAt # requests[r].managerSignedAt)
          => \E s \in Slots : ApproveSucceeds(s) /\ inflight'[s].id = r]_vars

\* the manager's approval of a Pending request has been answered 200: the
\* four columns carry the manager's call
C13_Witness ==
  \E s \in Slots :
    /\ inflight[s].pc = Answered
    /\ inflight[s].op = "approve"
    /\ inflight[s].resp.code = 200
    /\ inflight[s].seen = "Pending"
    /\ inflight[s].tok.sub = "U2"
    /\ inflight[s].resp.data[1].managerSignerId = Word("U2")
    /\ requests[inflight[s].id].status = "Approved"
    /\ requests[inflight[s].id].managerSignerId = Word("U2")
    /\ requests[inflight[s].id].managerSignature = inflight[s].body.signatureDataUrl
    /\ requests[inflight[s].id].managerSignedAt # Null

----------------------------------------------------------------------------
(* The life of a record: the employee submits, the manager sets statuses    *)
(* and approves, and each also tries the other's calls                      *)

RecordPayloads == {BasePayload, [BasePayload EXCEPT !.status = Word("Approved")]}

RecordCallers == {ValidToken("U2"), ValidToken("U4")}

InitRecord == Started /\ callers = RecordCallers

NextRecord ==
  \/ Submit(RecordPayloads, MaxRequests)
  \/ UpdateStatus({StatusBody(Word("Rejected"))}, 1..MaxRequests)
  \/ ApproveWithSignature({SignatureBody(DataUrl("png", "base64"))}, 1..MaxRequests)
  \/ SeedScript({"Pending"}, MaxRequests)

SpecRecord == InitRecord /\ [][NextRecord]_vars

ApproverUnset(row) ==
  /\ row.managerSignature = Null
  /\ row.managerSignerId = Null
  /\ row.managerSignedAt = Null

ApproverSet(row) ==
  /\ row.managerSignature # Null
  /\ row.managerSignerId # Null
  /\ row.managerSignedAt # Null

\* C14: in every state the three approver columns of a record are all set or
\* all unset; and they are set after a step only if the record is Approved
\* then or had them set before, so a record that never was Approved has them
\* unset.
C14_ApproverFieldsTogether ==
  /\ [](\A r \in DOMAIN requests :
          ApproverSet(requests[r]) \/ ApproverUnset(requests[r]))
  /\ [][\A r \in DOMAIN requests' :
          ~ApproverUnset(requests'[r]) =>
            \/ requests'[r].status = "Approved"
            \/ r \in DOMAIN requests /\ ~ApproverUnset(requests[r])]_vars

\* an approved record that was rejected afterwards keeps the three columns,
\* next to a record that was never approved and has none
C14_Witness ==
  \E r, q \in DOMAIN requests :
    /\ requests[r].status = "Rejected"
    /\ ApproverSet(requests[r])
    /\ requests[q].status = "Pending"
    /\ ApproverUnset(requests[q])

\* C15: a step removes no record and changes no column of a record other
\* than status and the three approver columns.
C15_RecordsKept ==
  [][\A r \in DOMAIN requests :
       /\ r \in DOMAIN requests'
       /\ [requests'[r] EXCEPT !.status = requests[r].status,
                               !.managerSignature = requests[r].managerSignature,
                               !.managerSignerId = requests[r].managerSignerId,
                               !.managerSignedAt = requests[r].managerSignedAt]
          = requests[r]]_vars

\* a Submit has created a second record next to a record of the employee
\* that was approved meanwhile and still names the employee as requester
C15_Witness ==
  /\ last.op = "submit"
  /\ last.code = 201
  /\ \E r \in DOMAIN requests :
       /\ r # last.id
       /\ requests[r].requestId = r
       /\ requests[r].requesterId = Word("U4")
       /\ requests[r].status = "Approved"
       /\ ApproverSet(requests[r])

----------------------------------------------------------------------------
(* Status setting: the admin and the manager set every status and approve,  *)
(* on rows the seed script inserted with any of the four statuses           *)

AllStatusBodies ==
  {StatusBody(Word(st)) : st \in StatusEnum} \cup {StatusBody(Word("Done"))}

NextStatus ==
  \/ UpdateStatus(AllStatusBodies, 1..MaxRequests)
  \/ ApproveWithSignature({SignatureBody(DataUrl("png", "base64"))}, 1..MaxRequests)
  \/ SeedScript(StatusEnum, MaxRequests)

SpecStatus == InitApprove /\ [][NextStatus]_vars

\* C16: an UpdateStatus call by a manager or admin on an existing record
\* with a target status of the enum is answered 200 with the updated record,
\* whatever the status was, and changes the status column of that record and
\* nothing else.
C16_StatusOverwrite ==
  [][(/\ last' # last
      /\ last'.op = "updateStatus"
      /\ CallerHasRole(last', {"manager", "admin"})
      /\ last'.id \in DOMAIN requests
      /\ InEnum(last'.body.status, StatusEnum))
     => /\ last'.code = 200
        /\ requests' = [requests EXCEPT ![last'.id].status = last'.body.status.w]
        /\ last'.data = <<requests'[last'.id]>>]_vars

\* a record the manager approved has been set to Canceled by the admin and
\* still carries the manager's signature
C16_Witness ==
  /\ last.op = "updateStatus"
  /\ last.code = 200
  /\ last.tok.sub = "U1"
  /\ last.body.status = Word("Canceled")
  /\ requests[last.id].status = "Canceled"
  /\ requests[last.id].managerSignerId = Word("U2")
  /\ requests[last.id].managerSignature # Null
  /\ requests[last.id].managerSignedAt # Null

\* C17: an ApproveWithSignature call on a record whose status is Rejected or
\* Canceled leaves the status of that record as it is.
C17_ApproveOnlyFromPending ==
  [][(/\ last' # last
      /\ last'.op = "approve"
      /\ last'.id \in DOMAIN requests
      /\ requests[last'.id].status \in {"Rejected", "Canceled"})
     => requests'[last'.id].status = requests[last'.id].status]_vars

----------------------------------------------------------------------------
(* Input validation: the employee submits payloads with one or several      *)
(* constraints violated and uploads with and without file and signature     *)

\* start and end of the leave in a payload
WithDates(body, s, e) == [body EXCEPT !.startDate = s, !.endDate = e]

ValidationPayloads ==
  {BasePayload,
   WithDates(BasePayload, DateStr(2025, 1, 12), DateStr(2025, 1, 10)),
   [WithDates(BasePayload, DateStr(2025, 1, 12), DateStr(2025, 1, 10))
      EXCEPT !.dept = Word("sales")],
   [WithDates(BasePayload, DateStr(2025, 1, 12), DateStr(2025, 1, 10))
      EXCEPT !.contact = Phone(3)],
   WithDates(BasePayload, DateStr(2025, 3, 1), DateStr(2025, 2, 31)),
   WithDates(BasePayload, DateStr(2025, 2, 31), DateStr(2025, 3, 3)),
   WithDates(BasePayload, DateStr(2025, 1, 10), DateStr(2025, 13, 1)),
   [BasePayload EXCEPT !.name = Word(""), !.contact = Phone(3)],
   [BasePayload EXCEPT !.leaveType = Undef, !.signatureDataUrl = DataUrl("gif", "base64")]}

InitValidate == Started /\ callers = Uploaders

NextValidate ==
  \/ Submit(ValidationPayloads, MaxRequests)
  \/ SeedScript({"Pending"}, MaxRequests)
  \/ UploadBegin(UploadBodies, GuardSlots)
  \/ UploadStore(GuardSlots)
  \/ UploadFinish(GuardSlots, MaxWorklogs)

SpecValidate == InitValidate /\ [][NextValidate]_vars

\* both are "yyyy-mm-dd" strings and the end is an earlier year-month-day
\* than the start
EndsBeforeStart(body) ==
  /\ MatchesDateRegex(body.startDate)
  /\ MatchesDateRegex(body.endDate)
  /\ DateTextLess(body.endDate, body.startDate)

\* C18: a Submit of an accepted caller whose endDate is earlier than its
\* startDate is answered 400 with endDate among the fields named, whatever
\* the other fields hold, and inserts nothing.
C18_EndBeforeStartRefused ==
  [][(/\ last' # last
      /\ last'.op = "submit"
      /\ CallerHasRole(last', SubmitRoles)
      /\ EndsBeforeStart(last'.body))
     => /\ last'.code = 400
        /\ "endDate" \in last'.fieldErrors
        /\ requests' = requests]_vars

\* C19: every stored leave request has an endDate that is the same day as
\* its startDate or a later one.
C19_StoredEndNotBeforeStart ==
  \A r \in DOMAIN requests :
    ~DateTextLess(requests[r].endDate, requests[r].startDate)

\* what a 400 answer of the upload handler reports as missing
UploadReported(resp) ==
  CASE resp.error = "file required" -> {"file"}
    [] resp.error = "signature required" -> {"signatureDataUrl"}
    [] OTHER -> {}

\* C20: a 400 answer names every violated constraint: every field of a
\* Submit payload that fails its own constraint, and both the file and the
\* signature of an upload that has neither.
C20_AllViolationsReported ==
  /\ (last.op = "submit" /\ last.code = 400)
       => \A key \in SchemaKeys :
            FieldStatus(last.body, key) # "valid" => key \in last.fieldErrors
  /\ (/\ last.op = "upload"
      /\ last.code = 400
      /\ ~last.body.file.present
      /\ ~MatchesSignatureRegex(last.body.signatureDataUrl))
       => {"file", "signatureDataUrl"} \subseteq UploadReported(last)

----------------------------------------------------------------------------
(* Refused submissions (under SpecValidate) *)

\* a field of the payload fails its own constraint, or the end of the leave
\* is a day before its start
ViolatesConstraint(body) ==
  \/ \E key \in SchemaKeys : FieldStatus(body, key) # "valid"
  \/ EndsBeforeStart(body)

\* C21: a Submit of an accepted caller whose payload violates a constraint is
\* answered 400 and inserts nothing; and every record a Submit created
\* carries a requester signature that is a PNG/JPEG base64 data URL.
C21_InvalidSubmitRefused ==
  /\ [][(/\ last' # last
         /\ last'.op = "submit"
         /\ CallerHasRole(last', SubmitRoles)
         /\ ViolatesConstraint(last'.body))
        => last'.code = 400 /\ requests' = requests]_vars
  /\ [](\A r \in DOMAIN requests :
          requests[r].requesterId # Null
            => MatchesSignatureRegex(requests[r].signature))

----------------------------------------------------------------------------
(* Work logs of two uploaders, the manager and the employee                 *)

NextWorklog ==
  \/ UploadBegin(GuardUploadBodies, Slots)
  \/ UploadStore(Slots)
  \/ UploadFinish(Slots, MaxWorklogs)

SpecWorklog == InitRecord /\ [][NextWorklog]_vars

\* C22: every work-log row names a file of the upload directory and carries
\* a PNG/JPEG signature; and a row is inserted only by an upload answered
\* 201, with status Pending and the id of that upload's authenticated caller
\* as uploaderId.
C22_WorklogRowComplete ==
  /\ [](\A w \in DOMAIN worklogs :
          /\ worklogs[w].filePath # NoFileName
          /\ worklogs[w].filePath \in DOMAIN files
          /\ MatchesSignatureRegex(worklogs[w].signature))
  /\ [][\A w \in DOMAIN worklogs' \ DOMAIN worklogs :
          /\ last'.op = "upload" /\ last'.code = 201 /\ last'.id = w
          /\ authRequired(last'.tok).code = 0
          /\ worklogs'[w].uploaderId = Word(authRequired(last'.tok).user.id)
          /\ worklogs'[w].status = "Pending"]_vars

\* the table holds a Pending row uploaded by the employee and a row uploaded
\* by the manager
C22_Witness ==
  \E w \in DOMAIN worklogs :
    /\ worklogs[w].uploaderId = Word("U4")
    /\ worklogs[w].status = "Pending"
    /\ \E v \in DOMAIN worklogs : worklogs[v].uploaderId = Word("U2")


\* C23: two work-log rows never name the same stored file, whatever the
\* original names and the clock readings of their uploads.
C23_DistinctFileReferences ==
  \A v, w \in DOMAIN worklogs :
    v # w => worklogs[v].filePath # worklogs[w].filePath


----------------------------------------------------------------------------
(* Work-log status: the admin and the manager upload work logs and set      *)
(* every status, known or not, on ids with and without a row                *)

NextWorklogStatus ==
  \/ UploadBegin(GuardUploadBodies, GuardSlots)
  \/ UploadStore(GuardSlots)
  \/ UploadFinish(GuardSlots, MaxWorklogs)
  \/ WorklogUpdateStatus(AllStatusBodies, 1..MaxWorklogs)

SpecWorklogStatus == InitApprove /\ [][NextWorklogStatus]_vars

\* C24: the status of every work-log row is Pending, Approved or Rejected;
\* and a status change asked for by a manager or an admin is answered 400
\* with the table unchanged when the target is none of the three, else 404
\* with the table unchanged when no row has the id, else 200 with the row's
\* status, whatever it was, replaced by the target and nothing else changed.
C24_WorklogStatusClosed ==
  /\ [](\A w \in DOMAIN worklogs :
          worklogs[w].status \in {"Pending", "Approved", "Rejected"})
  /\ [][(/\ last' # last
         /\ last'.op = "worklogUpdateStatus"
         /\ CallerHasRole(last', {"manager", "admin"}))
        => IF ~(/\ last'.body.status.k = "word"
                /\ last'.body.status.w \in {"Pending", "Approved", "Rejected"})
           THEN last'.code = 400 /\ worklogs' = worklogs
           ELSE IF last'.id \notin DOMAIN worklogs
           THEN last'.code = 404 /\ worklogs' = worklogs
           ELSE /\ last'.code = 200
                /\ worklogs' = [worklogs EXCEPT
                                  ![last'.id].status = last'.body.status.w]]_vars

\* a target of Canceled has been refused on an existing row, after another
\* row was set to Rejected and this one to Approved
C24_Witness ==
  /\ last.op = "worklogUpdateStatus"
  /\ last.code = 400
  /\ last.body.status = Word("Canceled")
  /\ last.id \in DOMAIN worklogs
  /\ worklogs[last.id].status = "Approved"
  /\ \E w \in DOMAIN worklogs : worklogs[w].status = "Rejected"


----------------------------------------------------------------------------
(* Listing: the employee submits requests dated before, within and after    *)
(* the last month, and the employee and the manager read the three lists,   *)
(* on 30 March 2025 and the days after                                      *)

NextRecent ==
  \/ Submit({[BasePayload EXCEPT !.dateRequested = d] :
               d \in {DateStr(2025, 1, 1), DateStr(2025, 3, 1),
                      DateStr(2025, 3, 15), DateStr(2025, 5, 1)}},
            MaxRequests)
  \/ ListAll
  \/ ListMine
  \/ ListRecent
  \/ Tick

SpecRecent == InitRecord /\ [][NextRecent]_vars

\* the day of the month before today's with today's day of month, or the
\* last day of that month when it is shorter
MonthBefore(today) ==
  LET y == IF today.m = 1 THEN today.y - 1 ELSE today.y
      m == IF today.m = 1 THEN 12 ELSE today.m - 1
  IN  DateStr(y, m, IF today.d <= DaysInMonth(y, m) THEN today.d
                    ELSE DaysInMonth(y, m))

InLastMonth(date, today) ==
  /\ ~DateTextLess(date, MonthBefore(today))
  /\ ~DateTextLess(today, date)

\* C25: a ListRecent answered 200 returns exactly the stored requests whose
\* dateRequested is on or after the day one month before today and not
\* after today.
C25_RecentIsLastMonth ==
  [][(last' # last /\ last'.op = "listRecent" /\ last'.code = 200)
     => {last'.data[i] : i \in DOMAIN last'.data}
          = {r \in Rows(requests) :
               InLastMonth(r.dateRequested, Today(clock))}]_vars


\* C26: a ListAll of an authenticated caller is answered 200 with every
\* stored request, each once; and the records of a ListAll, ListMine or
\* ListRecent answered 200 are in non-increasing order of dateRequested.
C26_ListsCompleteAndOrdered ==
  [][last' # last =>
       /\ (last'.op = "listAll" /\ authRequired(last'.tok).code = 0)
            => /\ last'.code = 200
               /\ {last'.data[i] : i \in DOMAIN last'.data} = Rows(requests)
               /\ Len(last'.data) = Cardinality(DOMAIN requests)
       /\ (last'.op \in {"listAll", "listMine", "listRecent"} /\ last'.code = 200)
            => \A i, j \in DOMAIN last'.data :
                 i < j => ~DateTextLess(last'.data[i].dateRequested,
                                        last'.data[j].dateRequested)]_vars

\* the manager has listed two requests of different dates, both of them the
\* employee's
C26_Witness ==
  /\ last.op = "listAll"
  /\ last.code = 200
  /\ last.tok = ValidToken("U2")
  /\ Len(last.data) = 2
  /\ DateTextLess(last.data[2].dateRequested, last.data[1].dateRequested)
  /\ \A i \in DOMAIN last.data : last.data[i].requesterId = Word("U4")


----------------------------------------------------------------------------
(* Requester signatures: the employee submits with a PNG or a JPEG          *)
(* signature, the manager approves with a PNG signature and cancels, and    *)
(* both read the signature of every id                                      *)

NextSignature ==
  \/ Submit({BasePayload,
             [BasePayload EXCEPT !.signatureDataUrl = DataUrl("jpeg", "base64")]},
            MaxRequests)
  \/ SeedScript({"Pending"}, MaxRequests)
  \/ ApproveWithSignature({SignatureBody(DataUrl("png", "base64"))}, 1..MaxRequests)
  \/ UpdateStatus({StatusBody(Word("Canceled"))}, 1..MaxRequests)
  \/ GetSignature(1..MaxRequests)

SpecSignature == InitRecord /\ [][NextSignature]_vars

\* C27: a Submit answered 201 stores the signature of its payload under the
\* id it returns; no step changes the signature of a stored record or
\* removes the record; and a GetSignature of an authenticated caller is
\* answered 200 with the stored requester signature of the id, or 404 when
\* no record has the id or the record has no requester signature.
C27_SignatureReadBack ==
  /\ [][(last' # last /\ last'.op = "submit" /\ last'.code = 201)
        => /\ last'.id \in DOMAIN requests' \ DOMAIN requests
           /\ requests'[last'.id].signature = last'.body.signatureDataUrl]_vars
  /\ [][\A r \in DOMAIN requests :
          /\ r \in DOMAIN requests'
          /\ requests'[r].signature = requests[r].signature]_vars
  /\ [][(last' # last /\ last'.op = "getSignature"
         /\ authRequired(last'.tok).code = 0)
        => IF /\ last'.id \in DOMAIN requests
              /\ requests[last'.id].signature # Null
           THEN last'.code = 200 /\ last'.dataUrl = requests[last'.id].signature
           ELSE last'.code = 404]_vars

\* the employee reads the JPEG signature of a request that has since been
\* approved with a PNG signature
C27_Witness ==
  /\ last.op = "getSignature"
  /\ last.code = 200
  /\ last.tok = ValidToken("U4")
  /\ last.dataUrl = DataUrl("jpeg", "base64")
  /\ requests[last.id].status = "Approved"
  /\ requests[last.id].managerSignature = DataUrl("png", "base64")


----------------------------------------------------------------------------
(* Failures of the database: a statement of better-sqlite3 throws (the file *)
(* is locked, the disk is full). The handlers of GET /api/requests/mine,    *)
(* GET /api/worklogs and POST /api/worklogs run their statements inside     *)
(* try/catch and answer 500 {ok:false, error:'Internal error'}; the other   *)
(* handlers have none and the application installs no error middleware, so  *)
(* the exception leaves the handler and Express's default error handler     *)
(* answers 500 with an HTML page, no {ok, error} body (error = "" here).    *)

HandlersWithCatch == {"listMine", "worklogList", "upload"}

\* the first statement of a call throws: a call that gets past the access
\* guard and the validation (its answer would have been 200, 201, 404 or
\* 409), or an upload whose handler is about to insert; nothing is stored
StoreFailure(slots) ==
  \/ \E tok \in callers :
       \E resp \in
            {SubmitResult(requests, tok, BasePayload).resp,
             UpdateStatusResult(requests, tok, 1, StatusBody(Word("Rejected"))).resp,
             ApproveResult(requests, tok, 1,
                           SignatureBody(DataUrl("png", "base64")), clock).resp,
             WorklogUpdateStatusResult(worklogs, tok, 1,
                                       StatusBody(Word("Approved"))).resp}
            \cup ListAllResults(requests, tok)
            \cup ListMineResults(requests, tok)
            \cup ListRecentResults(requests, tok, clock)
            \cup WorklogListResults(worklogs, tok) :
         /\ resp.code \in {200, 201, 404, 409}
         /\ last' = Fail(resp.op, tok, IF resp.op = "submit" THEN 0 ELSE resp.id,
                         resp.body, 500,
                         IF resp.op \in HandlersWithCatch
                         THEN "Internal error" ELSE "")
         /\ UNCHANGED <<users, requests, worklogs, files, inflight, clock, callers>>
  \/ \E s \in slots :
       /\ inflight[s].pc > 0
       /\ UploadChain[inflight[s].pc] = "handler"
       /\ LET c == inflight[s] IN
            /\ UploadResult(worklogs, c.tok, c.user, c.filename, c.body,
                            clock).resp.code = 201
            /\ last' = Fail("upload", c.tok, 0, c.body, 500,
                            IF "upload" \in HandlersWithCatch
                            THEN "Internal error" ELSE "")
       /\ inflight' = [inflight EXCEPT ![s] = Idle]
       /\ UNCHANGED <<users, requests, worklogs, files, clock, callers>>

NextFailure ==
  \/ Submit(GuardPayloads, MaxRequests)
  \/ UploadBegin(GuardUploadBodies, GuardSlots)
  \/ UploadStore(GuardSlots)
  \/ UploadFinish(GuardSlots, MaxWorklogs)
  \/ StoreFailure(GuardSlots)

SpecFailure == InitRecord /\ [][NextFailure]_vars

\* C28: every call whose database statement failed is answered with the
\* typed result {ok:false, error:'Internal error'}.
C28_StoreFailureTyped ==
  last.code = 500 => last.error = "Internal error"


----------------------------------------------------------------------------
(* Progress of uploads. The event loop of Node runs every callback that is  *)
(* ready, so a call whose file has arrived is stored and a call whose file  *)
(* is stored reaches its handler: weak fairness of both steps, per call.    *)
(* The run takes no more uploads than the table has room for.               *)

NextUploadFair ==
  \/ /\ Cardinality(DOMAIN worklogs)
          + Cardinality({s \in Slots : inflight[s] # Idle}) < MaxWorklogs
     /\ UploadBegin(GuardUploadBodies, Slots)
  \/ UploadStore(Slots)
  \/ UploadFinish(Slots, MaxWorklogs)

SpecUploadFair ==
  /\ InitRecord
  /\ [][NextUploadFair]_vars
  /\ \A s \in Slots : /\ WF_vars(UploadStore({s}))
                      /\ WF_vars(UploadFinish({s}, MaxWorklogs))

\* C29: every upload in flight is answered in the end; a call leaves its
\* slot only in a step that answers it, that call and no other; and when it
\* is answered the file it sent is in the upload directory, written by an
\* earlier step.
C29_EveryUploadAnswered ==
  /\ \A s \in Slots : (inflight[s] # Idle) ~> (inflight[s] = Idle)
  /\ [][\A s \in Slots :
          (inflight[s] # Idle /\ inflight'[s] # inflight[s] /\ inflight'[s].pc # inflight[s].pc + 1)
            => /\ inflight'[s] = Idle
               /\ \A t \in Slots \ {s} : inflight'[t] = inflight[t]
               /\ last'.op = "upload"
               /\ last'.tok = inflight[s].tok
               /\ last'.body = inflight[s].body
               /\ last'.code \in {201, 400}
               /\ files' = files
               /\ inflight[s].body.file.present
                    => /\ inflight[s].filename \in DOMAIN files
                       /\ files[inflight[s].filename] = inflight[s].body.file.bytes]_vars

\* an upload has been answered 201 while another call is still in flight
C29_Witness ==
  /\ last.op = "upload"
  /\ last.code = 201
  /\ \E s \in Slots : inflight[s] # Idle


----------------------------------------------------------------------------
(* Start-up on the database file of an earlier deployment. A stored         *)
(* passwordHash is the password it verifies and the run that computed it    *)
(* (bcrypt salts every hash anew).                                          *)

\* a start-up that replaces the row of an account whose password differs,
\* under a new id
seedUserReinsert(table, id) ==
  LET acct == SeededUsers[id]
      found == {u \in DOMAIN table : table[u].username = acct.username}
      row == [username |-> acct.username, role |-> acct.role,
              passwordHash |-> [password |-> "seed", salt |-> "new"]]
  IN  IF found = {}
      THEN (id :> row) @@ table
      ELSE IF \E u \in found : table[u].passwordHash.password # "seed"
      THEN (acct.username :> row) @@ [u \in DOMAIN table \ found |-> table[u]]
      ELSE table

\* seedUser(username, name, role, password) for the account SeededUsers
\* lists under id: INSERT when no row has the username, else UPDATE
\* passwordHash and role when the stored hash does not verify the password
seedUser(table, id) ==
  LET acct == SeededUsers[id]
      found == {u \in DOMAIN table : table[u].username = acct.username}
      row == [username |-> acct.username, role |-> acct.role,
              passwordHash |-> [password |-> "seed", salt |-> "new"]]
  IN  IF found = {}
      THEN (id :> row) @@ table
      ELSE [u \in DOMAIN table |->
              IF u \in found /\ table[u].passwordHash.password # "seed"
              THEN [table[u] EXCEPT !.passwordHash = row.passwordHash,
                                    !.role = acct.role]
              ELSE table[u]]

\* the four seedUser calls of a start-up, before the server listens
StartUp ==
  /\ users' = seedUser(seedUser(seedUser(seedUser(users, "U1"), "U2"), "U3"), "U4")
  /\ UNCHANGED <<requests, worklogs, files, inflight, clock, callers, last>>

\* the users table of the earlier deployment: the admin and the employee
\* exist, the manager and the hr account may; a stored password is the one
\* of the seedUser call or another, a stored role the one of the call or
\* another of the four (the employee a manager, the others employees); the
\* clients hold the tokens the earlier deployment signed for the manager and
\* the employee, {sub, role} with the role stored then, and one for a user
\* of whom the table has no row
InitSeed ==
  /\ \E present \in {p \in SUBSET DOMAIN SeededUsers : {"U1", "U4"} \subseteq p} :
       \E password \in [present -> {"seed", "old"}],
          moved \in [present -> BOOLEAN] :
         users = [u \in present |->
                    [username |-> SeededUsers[u].username,
                     role |-> IF ~moved[u] THEN SeededUsers[u].role
                              ELSE IF u = "U4" THEN "manager" ELSE "employee",
                     passwordHash |-> [password |-> password[u], salt |-> "old"]]]
  /\ requests = <<>>
  /\ worklogs = <<>>
  /\ files = <<>>
  /\ inflight = [s \in Slots |-> Idle]
  /\ clock = 0
  /\ last = NoCall
  /\ callers = {[kind |-> "valid", sub |-> u, role |-> users[u].role] :
                  u \in DOMAIN users \cap {"U2", "U4"}}
                \cup {[kind |-> "valid", sub |-> GhostId, role |-> "admin"]}

\* POST /api/login of the manager or the employee with the password of the
\* account: the client gets a token {sub, role} signed with the stored role
Login ==
  \E u \in DOMAIN users \cap {"U2", "U4"} :
    /\ callers' = callers \cup {[kind |-> "valid", sub |-> u,
                                 role |-> users[u].role]}
    /\ last' = Fail("login", NoToken, 0, NoBody, 200, "")
    /\ UNCHANGED <<users, requests, worklogs, files, inflight, clock>>

\* the server answers calls once its start-up has run
NextSeed ==
  \/ StartUp
  \/ /\ users = seedUser(seedUser(seedUser(seedUser(users, "U1"), "U2"), "U3"), "U4")
     /\ \/ Login
        \/ Submit({BasePayload}, MaxRequests)
        \/ ListRecent
        \/ ListMine

SpecSeed == InitSeed /\ [][NextSeed]_vars

\* C30: the role of every user is one of employee, manager, hr, admin; and
\* no step removes a user or changes the id or the username of one.
C30_UsersKeepIdentity ==
  /\ [](\A u \in DOMAIN users :
          users[u].role \in {"employee", "manager", "hr", "admin"})
  /\ [][\A u \in DOMAIN users :
          /\ u \in DOMAIN users'
          /\ users'[u].username = users[u].username]_vars

\* the employee, whose credential a start-up has rotated, has been answered
\* under the same id
C30_Witness ==
  /\ "U4" \in DOMAIN users
  /\ users["U4"].username = "employee"
  /\ users["U4"].passwordHash = [password |-> "seed", salt |-> "new"]
  /\ last.tok.kind = "valid"
  /\ last.tok.sub = "U4"
  /\ last.code = 200


----------------------------------------------------------------------------
(* What the roles can do to a leave request (under Spec and SpecStatus) *)

\* C31: a step that answers a call of an employee or hr caller leaves no
\* request, new or old, with a status other than Pending that it did not
\* have before.
C31_OnlyApproversDecide ==
  [][(last' # last /\ CallerHasRole(last', {"employee", "hr"}))
     => \A r \in DOMAIN requests' :
          (r \notin DOMAIN requests \/ requests'[r].status # requests[r].status)
            => requests'[r].status = "Pending"]_vars


\* C32: once a request carries an approver's signature, no step changes its
\* managerSignature, managerSignerId or managerSignedAt.
C32_ApprovalKept ==
  [][\A r \in DOMAIN requests :
       requests[r].managerSignature # Null
         => /\ r \in DOMAIN requests'
            /\ requests'[r].managerSignature = requests[r].managerSignature
            /\ requests'[r].managerSignerId = requests[r].managerSignerId
            /\ requests'[r].managerSignedAt = requests[r].managerSignedAt]_vars


----------------------------------------------------------------------------
(* Precedence of failures (under SpecGuard) *)

C34_StoredRoleDecides ==
  [][(/\ last' # last
      /\ last'.op \in {"submit", "listRecent", "listMine"}
      /\ last'.tok.kind = "valid")
     => IF last'.tok.sub \notin DOMAIN users
        THEN last'.code = 401
        ELSE /\ last'.code # 401
             /\ last'.code = 403
                  <=> users[last'.tok.sub].role \notin ClaimedRoles(last'.op)]_vars

\* the employee's token, signed when the stored role was manager, has been
\* refused on the manager's list after a start-up set the role back
C34_Witness ==
  /\ last.op = "listRecent"
  /\ last.code = 403
  /\ last.tok.role = "manager"
  /\ last.tok.sub \in DOMAIN users
  /\ users[last.tok.sub].role = "employee"


----------------------------------------------------------------------------
(* Reading work logs: app.use('/static', express.static(DOC_DIR)) is        *)
(* registered before every route and without authRequired, and the upload   *)
(* directory doc_data/worklogs lies under DOC_DIR. The callers: a client    *)
(* that sends no token, and the employee.                                   *)

\* GET /static/worklogs/<name>: the bytes of the file of that name, or 404
GetStatic(names) ==
  \E tok \in callers, name \in names :
    /\ last' = IF name \in DOMAIN files
               THEN Response("static", tok, 0, NoBody, 200, "",
                             <<files[name]>>, {}, Null)
               ELSE Fail("static", tok, 0, NoBody, 404, "Not Found")
    /\ UNCHANGED <<users, requests, worklogs, files, inflight, clock, callers>>

NextStatic ==
  \/ UploadBegin(GuardUploadBodies, GuardSlots)
  \/ UploadStore(GuardSlots)
  \/ UploadFinish(GuardSlots, MaxWorklogs)
  \/ WorklogList
  \/ GetStatic({StoredFileName(t, "log.pdf") : t \in 0..MaxClock})

InitStatic == Started /\ callers = {NoToken, ValidToken("U4")}

SpecStatic == InitStatic /\ [][NextStatic]_vars

\* C35: no call of an unauthenticated client is answered with the bytes of
\* a stored work-log file, and the list of work-log rows is answered 200 to
\* managers and admins only.
C35_WorklogsGuarded ==
  /\ (last.op = "static" /\ last.code = 200) => ~Unauthenticated(last)
  /\ (last.op = "worklogList" /\ last.code = 200)
       => CallerHasRole(last, {"manager", "admin"})


----------------------------------------------------------------------------
(* The form check of the employee's page. A form is a record of the eight   *)
(* fields the check reads; the errors are named after the field they are    *)
(* about, the date rule "EndBeforeStart".                                   *)

\* a check that also refuses a leave of one day
validateFormStrict(f) ==
  LET Falsy(v) == v = Undef \/ v = Null \/ (IsString(v) /\ StrLen(v) = 0)
      Required(key, v) == IF Falsy(v) THEN <<key>> ELSE <<>>
      s == DateGetTime(f.StartDate)
      e == DateGetTime(f.EndDate)
  IN  Required("EmpID", f.EmpID) \o Required("Name", f.Name)
        \o Required("Position", f.Position) \o Required("Dept", f.Dept)
        \o Required("LeaveType", f.LeaveType)
        \o Required("StartDate", f.StartDate)
        \o Required("EndDate", f.EndDate)
        \o (IF /\ ~Falsy(f.StartDate) /\ ~Falsy(f.EndDate)
               /\ s # NaN /\ e # NaN /\ e <= s
            THEN <<"EndBeforeStart">> ELSE <<>>)
        \o Required("Note", f.Note)

\* validateForm(f): errs in the order the checks push them
validateForm(f) ==
  LET Falsy(v) == v = Undef \/ v = Null \/ (IsString(v) /\ StrLen(v) = 0)
      Required(key, v) == IF Falsy(v) THEN <<key>> ELSE <<>>
      s == DateGetTime(f.StartDate)
      e == DateGetTime(f.EndDate)
  IN  Required("EmpID", f.EmpID) \o Required("Name", f.Name)
        \o Required("Position", f.Position) \o Required("Dept", f.Dept)
        \o Required("LeaveType", f.LeaveType)
        \o Required("StartDate", f.StartDate)
        \o Required("EndDate", f.EndDate)
        \o (IF /\ ~Falsy(f.StartDate) /\ ~Falsy(f.EndDate)
               /\ s # NaN /\ e # NaN /\ e < s
            THEN <<"EndBeforeStart">> ELSE <<>>)
        \o Required("Note", f.Note)

\* the page checks the form of a run: every text field empty or filled, the
\* leave type not chosen or chosen, each date absent, empty, no date
\* ("abc"), a date, or a day the month does not have
Validate ==
  \E text \in [{"EmpID", "Name", "Position", "Dept", "Note"}
                 -> {Word(""), Word("x")}],
     leaveType \in {Undef, Word("annual")},
     start \in {Undef, Word(""), Word("abc"), DateStr(2025, 9, 10),
                DateStr(2025, 3, 1)},
     end \in {Undef, Word(""), Word("abc"), DateStr(2025, 9, 9),
              DateStr(2025, 9, 10), DateStr(2025, 2, 31)} :
    \E f \in {[key \in {"EmpID", "Name", "Position", "Dept", "LeaveType",
                         "StartDate", "EndDate", "Note"} |->
                 CASE key = "LeaveType" -> leaveType
                   [] key = "StartDate" -> start
                   [] key = "EndDate" -> end
                   [] OTHER -> text[key]]} :
      /\ last = NoCall
      /\ last' = Response("validateForm", NoToken, 0, f, 0, "",
                          validateForm(f), {}, Null)
      /\ UNCHANGED <<users, requests, worklogs, files, inflight, clock, callers>>

InitForm == Started /\ callers = {}

SpecForm == InitForm /\ [][Validate]_vars

\* the value v of a form field is absent or the empty string
Missing(v) == v = Undef \/ v = Word("")

\* how often the error e is among errs
Count(errs, e) == Cardinality({i \in DOMAIN errs : errs[i] = e})

\* C36: the errors of a checked form hold the error of a required field
\* once when the field is missing and not at all when it is filled; they
\* hold the date error once when both dates are filled, both parse and the
\* end is before the start, and not at all otherwise; and they hold nothing
\* else (so seven errors when only the leave type is filled).
C36_FormErrors ==
  last.op = "validateForm" =>
    /\ \A key \in {"EmpID", "Name", "Position", "Dept", "LeaveType",
                   "StartDate", "EndDate", "Note"} :
         Count(last.data, key) = IF Missing(last.body[key]) THEN 1 ELSE 0
    /\ Count(last.data, "EndBeforeStart")
         = IF /\ ~Missing(last.body.StartDate)
              /\ ~Missing(last.body.EndDate)
              /\ DateGetTime(last.body.StartDate) # NaN
              /\ DateGetTime(last.body.EndDate) # NaN
              /\ DateGetTime(last.body.EndDate) < DateGetTime(last.body.StartDate)
           THEN 1 ELSE 0
    /\ \A i \in DOMAIN last.data :
         last.data[i] \in {"EmpID", "Name", "Position", "Dept", "LeaveType",
                           "StartDate", "EndDate", "Note", "EndBeforeStart"}
    /\ (/\ ~Missing(last.body.LeaveType)
        /\ \A key \in {"EmpID", "Name", "Position", "Dept", "StartDate",
                       "EndDate", "Note"} : Missing(last.body[key]))
         => Len(last.data) >= 7

\* a filled form whose end is the day before its start has been checked:
\* the date error and no other
C36_Witness ==
  /\ last.op = "validateForm"
  /\ last.body.StartDate = DateStr(2025, 9, 10)
  /\ last.body.EndDate = DateStr(2025, 9, 9)
  /\ last.data = <<"EndBeforeStart">>

=============================================================================
